---- MODULE Spec2Model ----
(***************************************************************************)
(* Billing application: the Create Bill view (InvoiceGenerator, the cart), *)
(* the App shell that owns settings, navigation and the persistence calls, *)
(* and the document store behind them.                                     *)
(*                                                                         *)
(* One step of the model is one event-loop task of the program: a UI       *)
(* handler run to its first await together with the re-render and the      *)
(* effects that follow it, or the continuation of an awaited store write.  *)
(***************************************************************************)
EXTENDS Integers, Sequences, FiniteSets

\* ------------------------------------------------------------------ bounds
MaxItems == 2       \* lines a cart may hold
MaxQty == 2         \* largest quantity a line may reach
MaxCounter == 2     \* largest next-invoice-number the counter may reach
MaxWrites == 1      \* store writes in flight at once
MaxDelta == 5
MaxClock == 1       \* largest value of the millisecond clock
MaxNum == 120       \* amounts 0..MaxNum are put into words
MaxPending == 2     \* store writes in flight at once where saves overlap

\* ------------------------------------------------------------- input sets
ProductIds == {"p1", "p2"}
QtyInputs == {0, 1, 2}
Deltas == {-1, 1}
NameInputs == {"", " ", "A"}
CityInputs == {"", "X"}
Today == "04/11/2026"
DateInputs == {Today, "typed"}
CustomerIds == {"c1"}
Tabs == {"CREATE_BILL", "INVOICE_HISTORY", "SETTINGS"}
SearchInputs == {"", "a", "B", "1", "x"}
FilterDateInputs == {"", "2026-11-04", "2026-11-05"}
TimezoneOffsets == {-330, 0, 300}
PackingInputs ==
  {"1 kg", "500 gm", "", "box", "1.5 Ltr", "250ml", "0.4 gm", "999.6 g", " 2 KG ", "1. kg"}
GstRateInputs == {0, 5, 12, 20}

\* -------------------------------------------------------------- constants
DefaultNextInvoiceNumber == 1
DefaultGstRate == 12

DEFAULT_BUSINESS_SETTINGS ==
  [nextInvoiceNumber |-> DefaultNextInvoiceNumber,
   enableGst |-> FALSE,
   defaultGstRate |-> DefaultGstRate,
   name |-> "My Business"]

\* A catalogue entry in its original (1) or edited (2) version.
ProductRecord(p, v) ==
  [id |-> p,
   name |-> IF v = 1 THEN p ELSE "renamed",
   rate |-> IF p = "p1" THEN (IF v = 1 THEN 2 ELSE 3) ELSE (IF v = 1 THEN 5 ELSE 4),
   unit |-> IF v = 1 THEN "Kg" ELSE "Pkt",
   packing |-> IF v = 1 THEN "1 kg" ELSE "500 gm"]

CustomerRecord(c) == [id |-> c, name |-> "A", city |-> "X"]

VARIABLES
  activeTab,          \* App: the tab shown
  settings,           \* App: BusinessSettings state
  hasUnsavedChanges,  \* App: the flag the navigation guard reads
  products,           \* App: catalogue state, product id -> record
  billNo, date, selectedCustomer, customerName, customerCity,
  items, isSaved, isSaving,   \* InvoiceGenerator state ("" / <<>> when unmounted)
  storedSettings,     \* store: the settings/general document
  invoicesDb,         \* store: invoices collection, bill id -> document
  writeQ,             \* store writes issued and not yet settled, in issue order
  now,                \* Date.now()
  alert,              \* the alert this step showed ("none" when it showed none)
  lastOp,             \* history: the cart operation the last step ran
  inputNum, amountInWords,  \* InvoiceTemplate: the amount put into words, and the words
  totalWeightDisplay, \* InvoiceTemplate: the total weight shown, as characters
  searchTerm, startDate, endDate,  \* InvoiceHistory: the filter controls
  filteredInvoices,   \* InvoiceHistory: the invoices listed
  csvContent,         \* InvoiceHistory: the text of the last CSV export, as characters
  timezoneOffset      \* the browser: Date.prototype.getTimezoneOffset(), in minutes

vars == <<activeTab, settings, hasUnsavedChanges, products, billNo, date,
          selectedCustomer, customerName, customerCity, items, isSaved, isSaving,
          storedSettings, invoicesDb, writeQ, now, alert, lastOp,
          inputNum, amountInWords, totalWeightDisplay,
          searchTerm, startDate, endDate, filteredInvoices, csvContent,
          timezoneOffset>>

cartVars == <<date, selectedCustomer, customerName, customerCity, items>>
\* The values InvoiceTemplate derives for display; they are modelled on their own.
viewVars == <<inputNum, amountInWords, totalWeightDisplay>>
\* The state of the Invoice History view and the time zone of the browser.
historyVars ==
  <<searchTerm, startDate, endDate, filteredInvoices, csvContent, timezoneOffset>>
storeVars == <<storedSettings, invoicesDb, writeQ>>

\* ---------------------------------------------------------------- helpers
Max(a, b) == IF a >= b THEN a ELSE b

\* Number.prototype.toString on the counters the model reaches.
ToString(n) ==
  CASE n = 0 -> "0" [] n = 1 -> "1" [] n = 2 -> "2" [] n = 3 -> "3"
    [] n = 4 -> "4" [] n = 5 -> "5" [] n = 6 -> "6" [] OTHER -> "big"

\* String.prototype.trim on the header inputs.
Trim(s) == IF s = " " THEN "" ELSE s

Mounted == activeTab = "CREATE_BILL"

RECURSIVE SumAmounts(_)
SumAmounts(s) == IF s = <<>> THEN 0 ELSE Head(s).amount + SumAmounts(Tail(s))

\* Math.round on a non-negative rational num/den.
RoundDiv(num, den) == (2 * num + den) \div (2 * den)

Subtotal(its) == SumAmounts(its)
GstRate(st) == IF st.enableGst THEN st.defaultGstRate ELSE 0
\* subtotal * (halfRate / 100) with halfRate = gstRate / 2
SgstAmount(its, st) ==
  IF st.enableGst THEN RoundDiv(Subtotal(its) * GstRate(st), 200) ELSE 0
\* A second component that drops the fraction instead of rounding.
CgstAmountTruncated(its, st) ==
  IF st.enableGst THEN (Subtotal(its) * GstRate(st)) \div 200 ELSE 0

CgstAmount(its, st) ==
  IF st.enableGst THEN RoundDiv(Subtotal(its) * GstRate(st), 200) ELSE 0
TotalTax(its, st) == SgstAmount(its, st) + CgstAmount(its, st)
GrandTotal(its, st) == Subtotal(its) + TotalTax(its, st)

\* The same figures as InvoiceTemplate computes them for the preview; propGstRate
\* is the gstRate prop: <<r>> when the view passes r, Undefined when it passes none.
Undefined == <<>>
CalcSubtotal(its) == SumAmounts(its)
TemplateRate(st, propGstRate) ==
  IF propGstRate # Undefined THEN propGstRate[1] ELSE st.defaultGstRate
\* A first component that drops the fraction instead of rounding.
CalcSgstTruncated(its, st, propGstRate) ==
  IF st.enableGst
  THEN (CalcSubtotal(its) * TemplateRate(st, propGstRate)) \div 200 ELSE 0

CalcSgst(its, st, propGstRate) ==
  IF st.enableGst
  THEN RoundDiv(CalcSubtotal(its) * TemplateRate(st, propGstRate), 200) ELSE 0
CalcCgst(its, st, propGstRate) ==
  IF st.enableGst
  THEN RoundDiv(CalcSubtotal(its) * TemplateRate(st, propGstRate), 200) ELSE 0
TotalAmount(its, st, propGstRate) ==
  CalcSubtotal(its) + CalcSgst(its, st, propGstRate) + CalcCgst(its, st, propGstRate)

\* The figures one InvoiceTemplate shows.
TemplateFigures(its, st, propGstRate) ==
  [subtotal |-> CalcSubtotal(its),
   sgstAmount |-> CalcSgst(its, st, propGstRate),
   cgstAmount |-> CalcCgst(its, st, propGstRate),
   total |-> TotalAmount(its, st, propGstRate)]

\* The first index whose line satisfies the test, 0 when none (findIndex).
\* A lookup that never finds an existing line.
FindIndexNone(its, pid) == 0

FindIndex(its, pid) ==
  IF \E i \in 1..Len(its) : its[i].productId = pid
  THEN CHOOSE i \in 1..Len(its) :
         /\ its[i].productId = pid
         /\ \A j \in 1..(i - 1) : its[j].productId # pid
  ELSE 0

RECURSIVE Filter(_, _)
Filter(its, id) ==
  IF its = <<>> THEN <<>>
  ELSE IF Head(its).id = id THEN Filter(Tail(its), id)
       ELSE <<Head(its)>> \o Filter(Tail(its), id)

\* ------------------------------------------------------- effects (render)
\* A signal that does not look at the lock.
HasChangesIgnoringLock(its, name, city, saved) ==
  Len(its) > 0 \/ Trim(name) # "" \/ Trim(city) # ""

HasChanges(its, name, city, saved) ==
  (Len(its) > 0 \/ Trim(name) # "" \/ Trim(city) # "") /\ ~saved

\* Effects whose bill number follows the counter also while the cart is locked.
EffectsAlwaysSync ==
  /\ billNo' = IF activeTab' # "CREATE_BILL" THEN ""
               ELSE ToString(settings'.nextInvoiceNumber)
  /\ hasUnsavedChanges' =
       IF activeTab' = "CREATE_BILL"
       THEN HasChanges(items', customerName', customerCity', isSaved')
       ELSE hasUnsavedChanges

\* The two effects of InvoiceGenerator, run after every render of a mounted view.
Effects ==
  /\ billNo' = IF activeTab' # "CREATE_BILL" THEN ""
               ELSE IF isSaved' THEN billNo
               ELSE ToString(settings'.nextInvoiceNumber)
  /\ hasUnsavedChanges' =
       IF activeTab' = "CREATE_BILL"
       THEN HasChanges(items', customerName', customerCity', isSaved')
       ELSE hasUnsavedChanges

\* The state of the application after construction.
InitApp ==
  /\ activeTab = "CREATE_BILL"
  /\ settings = DEFAULT_BUSINESS_SETTINGS
  /\ hasUnsavedChanges = FALSE
  /\ products = [p \in ProductIds |-> ProductRecord(p, 1)]
  /\ billNo = ToString(DEFAULT_BUSINESS_SETTINGS.nextInvoiceNumber)
  /\ date = Today
  /\ selectedCustomer = "null"
  /\ customerName = ""
  /\ customerCity = ""
  /\ items = <<>>
  /\ isSaved = FALSE
  /\ isSaving = FALSE
  /\ storedSettings = DEFAULT_BUSINESS_SETTINGS
  /\ invoicesDb = [b \in {} |-> b]
  /\ writeQ = <<>>
  /\ now = 0
  /\ alert = "none"
  /\ lastOp = "init"

\* The preview of the empty cart.
InitView ==
  /\ inputNum = [coef |-> 0, exp10 |-> 0]
  /\ amountInWords = <<"Zero">>
  /\ totalWeightDisplay = <<"-">>

\* The Invoice History view with its filter controls empty and nothing to list.
InitHistory ==
  /\ searchTerm = ""
  /\ startDate = ""
  /\ endDate = ""
  /\ filteredInvoices = <<>>
  /\ csvContent = <<>>
  /\ timezoneOffset = 0

Init == InitApp /\ InitView /\ InitHistory

\* ----------------------------------------------------------- cart actions
\* A view whose controls stay enabled after a save.
EditableNeverLocked == Mounted

\* The controls of the view are disabled while isSaved.
Editable == Mounted /\ ~isSaved

NewLine(product, qty) ==
  [id |-> ToString(now),
   productId |-> product.id,
   name |-> product.name,
   quantity |-> qty,
   unit |-> product.unit,
   rate |-> product.rate,
   amount |-> qty * product.rate,
   packing |-> product.packing]

\* A merge that takes the rate and the name of the catalogue entry anew.
MergeLineRefreshed(existingItem, qty) ==
  [existingItem EXCEPT !.quantity = existingItem.quantity + qty,
                       !.name = products[existingItem.productId].name,
                       !.rate = products[existingItem.productId].rate,
                       !.amount = (existingItem.quantity + qty) *
                                    products[existingItem.productId].rate]

\* A merge that keeps the old amount.
MergeLineStaleAmount(existingItem, qty) ==
  [existingItem EXCEPT !.quantity = existingItem.quantity + qty]

MergeLine(existingItem, qty) ==
  [existingItem EXCEPT !.quantity = existingItem.quantity + qty,
                       !.amount = (existingItem.quantity + qty) * existingItem.rate]

addItem(selectedProductID, qty) ==
  /\ Editable
  /\ selectedProductID # ""
  /\ selectedProductID \in DOMAIN products
  /\ LET product == products[selectedProductID]
         existingIndex == FindIndex(items, product.id)
     IN IF existingIndex > 0
        THEN /\ items[existingIndex].quantity + qty <= MaxQty
             /\ items' = [items EXCEPT ![existingIndex] = MergeLine(items[existingIndex], qty)]
        ELSE /\ Len(items) < MaxItems
             /\ items' = Append(items, NewLine(product, qty))
  /\ isSaved' = FALSE
  /\ alert' = "none"
  /\ UNCHANGED <<activeTab, settings, products, date, selectedCustomer, customerName,
                 customerCity, isSaving, storeVars, now>>
  /\ Effects

\* An adjustment without the floor.
NewQtyNoFloor(quantity, delta) == quantity + delta

NewQty(quantity, delta) == Max(1, quantity + delta)

\* An adjustment that keeps the old amount.
AdjustLineStaleAmount(item, delta) ==
  [item EXCEPT !.quantity = NewQty(item.quantity, delta)]

AdjustLine(item, delta) ==
  [item EXCEPT !.quantity = NewQty(item.quantity, delta),
               !.amount = NewQty(item.quantity, delta) * item.rate]

updateItemQty(id, delta) ==
  /\ Editable
  /\ \E i \in 1..Len(items) : items[i].id = id
  /\ \A i \in 1..Len(items) : items[i].id = id => items[i].quantity + delta <= MaxQty
  /\ isSaved' = FALSE
  /\ items' = [i \in 1..Len(items) |->
                 IF items[i].id = id
                 THEN AdjustLine(items[i], delta)
                 ELSE items[i]]
  /\ alert' = "none"
  /\ UNCHANGED <<activeTab, settings, products, date, selectedCustomer, customerName,
                 customerCity, isSaving, storeVars, now>>
  /\ Effects

removeItem(id) ==
  /\ Editable
  /\ \E i \in 1..Len(items) : items[i].id = id
  /\ isSaved' = FALSE
  /\ items' = Filter(items, id)
  /\ alert' = "none"
  /\ UNCHANGED <<activeTab, settings, products, date, selectedCustomer, customerName,
                 customerCity, isSaving, storeVars, now>>
  /\ Effects

\* A reset that leaves the customer in place.
resetFormKeepingCustomer ==
  /\ items' = <<>>
  /\ isSaved' = FALSE
  /\ date' = Today
  /\ alert' = "none"
  /\ UNCHANGED <<activeTab, settings, products, selectedCustomer, customerName,
                 customerCity, isSaving, storeVars, now>>
  /\ Effects

resetForm ==
  /\ items' = <<>>
  /\ selectedCustomer' = "null"
  /\ customerName' = ""
  /\ customerCity' = ""
  /\ isSaved' = FALSE
  /\ date' = Today
  /\ alert' = "none"
  /\ UNCHANGED <<activeTab, settings, products, isSaving, storeVars, now>>
  /\ Effects

\* The New Bill button of the header: asks before clearing a cart that holds lines.
NewBillHeader(confirmed) ==
  /\ Mounted
  /\ IF Len(items) > 0 /\ ~confirmed
     THEN /\ alert' = "none"
          /\ UNCHANGED <<activeTab, settings, hasUnsavedChanges, products, billNo,
                         cartVars, isSaved, isSaving, storeVars, now>>
     ELSE resetForm

\* The New Bill button shown below the actions while isSaved.
NewBillSaved ==
  /\ Mounted
  /\ isSaved
  /\ resetForm

handleCustomerSelect(custId) ==
  /\ Editable
  /\ isSaved' = FALSE
  /\ IF custId = "new"
     THEN /\ selectedCustomer' = "null"
          /\ customerName' = ""
          /\ customerCity' = ""
     ELSE /\ selectedCustomer' = custId
          /\ customerName' = CustomerRecord(custId).name
          /\ customerCity' = CustomerRecord(custId).city
  /\ alert' = "none"
  /\ UNCHANGED <<activeTab, settings, products, date, items, isSaving, storeVars, now>>
  /\ Effects

SetCustomerName(v) ==
  /\ Editable
  /\ v # customerName
  /\ customerName' = v
  /\ isSaved' = FALSE
  /\ alert' = "none"
  /\ UNCHANGED <<activeTab, settings, products, date, selectedCustomer, customerCity,
                 items, isSaving, storeVars, now>>
  /\ Effects

SetCustomerCity(v) ==
  /\ Editable
  /\ v # customerCity
  /\ customerCity' = v
  /\ isSaved' = FALSE
  /\ alert' = "none"
  /\ UNCHANGED <<activeTab, settings, products, date, selectedCustomer, customerName,
                 items, isSaving, storeVars, now>>
  /\ Effects

SetDate(v) ==
  /\ Editable
  /\ v # date
  /\ date' = v
  /\ alert' = "none"
  /\ UNCHANGED <<activeTab, settings, products, selectedCustomer, customerName,
                 customerCity, items, isSaved, isSaving, storeVars, now>>
  /\ Effects

\* ------------------------------------------------------------------- save
\* A Save button that does not look at the customer name.
SaveDisabledIgnoringName == Len(items) = 0 \/ isSaved \/ isSaving

\* The disabled condition of the Save button.
SaveDisabled ==
  Len(items) = 0 \/ isSaved \/ Trim(customerName) = "" \/ isSaving

\* The invoice handleSave composes from the state of the render it runs in.
ComposeInvoice ==
  [id |-> billNo,
   date |-> date,
   customerName |-> customerName,
   customerCity |-> customerCity,
   items |-> items,
   total |-> GrandTotal(items, settings),
   subtotal |-> Subtotal(items),
   gstAmount |-> TotalTax(items, settings),
   gstRate |-> GstRate(settings),
   sgstAmount |-> SgstAmount(items, settings),
   cgstAmount |-> CgstAmount(items, settings)]

NoInvoice == [id |-> ""]

\* handleSave up to its await: onSaveInvoice has issued setDoc for the invoice.
\* The write carries the settings handleSaveInvoice closed over.
\* maxWrites bounds the writes in flight.
handleSaveWithin(maxWrites) ==
  /\ Mounted
  /\ ~SaveDisabled
  /\ Len(writeQ) < maxWrites
  /\ settings.nextInvoiceNumber < MaxCounter
  /\ IF Len(items) = 0
     THEN /\ alert' = "empty"
          /\ UNCHANGED <<isSaved, isSaving, writeQ>>
     ELSE /\ isSaving' = TRUE
          /\ isSaved' = TRUE
          /\ writeQ' = Append(writeQ, [kind |-> "invoice", invoice |-> ComposeInvoice,
                                       settings |-> settings, fromSave |-> TRUE,
                                       attached |-> TRUE])
          /\ alert' = "none"
  /\ UNCHANGED <<activeTab, settings, products, cartVars, storedSettings, invoicesDb, now>>
  /\ Effects

handleSave == handleSaveWithin(MaxWrites)

\* ------------------------------------------------------------ App actions
Detach(q) == [i \in 1..Len(q) |-> [q[i] EXCEPT !.attached = FALSE]]

\* A tab change that never asks.
handleTabChangeUnguarded(tab, confirmed) ==
  /\ tab # activeTab
  /\ activeTab' = tab
  /\ hasUnsavedChanges' = FALSE
  /\ items' = <<>>
  /\ selectedCustomer' = "null"
  /\ customerName' = ""
  /\ customerCity' = ""
  /\ date' = Today
  /\ isSaved' = FALSE
  /\ isSaving' = FALSE
  /\ billNo' = IF tab = "CREATE_BILL" THEN ToString(settings.nextInvoiceNumber) ELSE ""
  /\ writeQ' = IF activeTab = "CREATE_BILL" THEN Detach(writeQ) ELSE writeQ
  /\ alert' = "none"
  /\ UNCHANGED <<settings, products, storedSettings, invoicesDb, now>>

\* handleTabChange; leaving Create Bill unmounts InvoiceGenerator (its state is
\* dropped and no continuation can set it any more), entering mounts a new one.
handleTabChange(tab, confirmed) ==
  /\ tab # activeTab
  /\ IF activeTab = "CREATE_BILL" /\ hasUnsavedChanges /\ ~confirmed
     THEN UNCHANGED <<activeTab, hasUnsavedChanges, billNo, cartVars, isSaved,
                      isSaving, writeQ>>
     ELSE /\ activeTab' = tab
          /\ hasUnsavedChanges' = FALSE
          /\ items' = <<>>
          /\ selectedCustomer' = "null"
          /\ customerName' = ""
          /\ customerCity' = ""
          /\ date' = Today
          /\ isSaved' = FALSE
          /\ isSaving' = FALSE
          /\ billNo' = IF tab = "CREATE_BILL"
                       THEN ToString(settings.nextInvoiceNumber) ELSE ""
          /\ writeQ' = IF activeTab = "CREATE_BILL" THEN Detach(writeQ) ELSE writeQ
  /\ alert' = "none"
  /\ UNCHANGED <<settings, products, storedSettings, invoicesDb, now>>

\* handleUpdateSettings up to its await: the optimistic setSettings and the
\* setDoc it issues.
\* q is the queue of the writes still in flight when it is called.
handleUpdateSettings(q, newSettings, fromSave, invoice, attached) ==
  /\ settings' = newSettings
  /\ writeQ' = Append(q, [kind |-> "settings", invoice |-> invoice,
                          settings |-> newSettings, fromSave |-> fromSave,
                          attached |-> attached])

\* parseInt(e.target.value) || 1 on the Next Invoice Number input.
ParseNextNo(n) == IF n = 0 THEN 1 ELSE n

SetNextInvoiceNumber(n) ==
  /\ activeTab = "SETTINGS"
  /\ Len(writeQ) < MaxWrites
  /\ ParseNextNo(n) # settings.nextInvoiceNumber
  /\ handleUpdateSettings(writeQ, [settings EXCEPT !.nextInvoiceNumber = ParseNextNo(n)],
                          FALSE, NoInvoice, FALSE)
  /\ alert' = "none"
  /\ UNCHANGED <<activeTab, products, cartVars, isSaved, isSaving, storedSettings,
                 invoicesDb, now>>
  /\ Effects

\* The Enable GST Calculation checkbox; maxWrites bounds the writes in flight.
SetEnableGstWithin(checked, maxWrites) ==
  /\ activeTab = "SETTINGS"
  /\ Len(writeQ) < maxWrites
  /\ checked # settings.enableGst
  /\ handleUpdateSettings(writeQ, [settings EXCEPT !.enableGst = checked],
                          FALSE, NoInvoice, FALSE)
  /\ alert' = "none"
  /\ UNCHANGED <<activeTab, products, cartVars, isSaved, isSaving, storedSettings,
                 invoicesDb, now>>
  /\ Effects

SetEnableGst(checked) == SetEnableGstWithin(checked, MaxWrites)

\* The Default GST Rate input, shown while GST is enabled.
SetDefaultGstRate(rate) ==
  /\ activeTab = "SETTINGS"
  /\ settings.enableGst
  /\ Len(writeQ) < MaxWrites
  /\ rate # settings.defaultGstRate
  /\ handleUpdateSettings(writeQ, [settings EXCEPT !.defaultGstRate = rate],
                          FALSE, NoInvoice, FALSE)
  /\ alert' = "none"
  /\ UNCHANGED <<activeTab, products, cartVars, isSaved, isSaving, storedSettings,
                 invoicesDb, now>>
  /\ Effects

\* ------------------------------------------------- store write settlement
PutInvoice(db, invoice) ==
  [b \in DOMAIN db \cup {invoice.id} |-> IF b = invoice.id THEN invoice ELSE db[b]]

\* (settings.nextInvoiceNumber || 0) + 1
NextNo(st) == st.nextInvoiceNumber + 1

\* The invoice setDoc of handleSaveInvoice resolved: the counter advance is issued.
InvoiceWriteOk ==
  /\ writeQ # <<>>
  /\ Head(writeQ).kind = "invoice"
  /\ LET w == Head(writeQ)
     IN /\ invoicesDb' = PutInvoice(invoicesDb, w.invoice)
        /\ handleUpdateSettings(Tail(writeQ),
                                [w.settings EXCEPT !.nextInvoiceNumber = NextNo(w.settings)],
                                TRUE, w.invoice, w.attached)
  /\ alert' = "none"
  /\ UNCHANGED <<activeTab, products, cartVars, isSaved, isSaving, storedSettings, now>>
  /\ Effects

\* The invoice setDoc rejected: handleSaveInvoice alerts and rethrows, handleSave
\* unlocks in its catch and clears isSaving in its finally.
InvoiceWriteFail ==
  /\ writeQ # <<>>
  /\ Head(writeQ).kind = "invoice"
  /\ writeQ' = Tail(writeQ)
  /\ IF Head(writeQ).attached
     THEN isSaved' = FALSE /\ isSaving' = FALSE
     ELSE UNCHANGED <<isSaved, isSaving>>
  /\ alert' = "failed"
  /\ UNCHANGED <<activeTab, settings, products, cartVars, storedSettings, invoicesDb, now>>
  /\ Effects

\* What handleSave does once onSaveInvoice has returned normally.
SaveReturned(w) ==
  /\ alert' = IF w.fromSave THEN "saved" ELSE "none"
  /\ IF w.fromSave /\ w.attached
     THEN isSaving' = FALSE
     ELSE UNCHANGED isSaving

SettingsWriteOk ==
  /\ writeQ # <<>>
  /\ Head(writeQ).kind = "settings"
  /\ writeQ' = Tail(writeQ)
  /\ storedSettings' = Head(writeQ).settings
  /\ SaveReturned(Head(writeQ))
  /\ UNCHANGED <<activeTab, settings, products, cartVars, isSaved, invoicesDb, now>>
  /\ Effects

\* The settings setDoc rejected: handleUpdateSettings logs it and returns normally.
SettingsWriteFail ==
  /\ writeQ # <<>>
  /\ Head(writeQ).kind = "settings"
  /\ writeQ' = Tail(writeQ)
  /\ SaveReturned(Head(writeQ))
  /\ UNCHANGED <<activeTab, settings, products, cartVars, isSaved, storedSettings,
                 invoicesDb, now>>
  /\ Effects

\* The settings listener: with no local write pending, the snapshot it receives is
\* the stored document, merged over the defaults.
SettingsSnapshot ==
  /\ \A i \in 1..Len(writeQ) : writeQ[i].kind # "settings"
  /\ settings # storedSettings
  /\ settings' = [f \in DOMAIN DEFAULT_BUSINESS_SETTINGS |->
                    IF f \in DOMAIN storedSettings THEN storedSettings[f]
                    ELSE DEFAULT_BUSINESS_SETTINGS[f]]
  /\ alert' = "none"
  /\ UNCHANGED <<activeTab, products, cartVars, isSaved, isSaving, storeVars, now>>
  /\ Effects

\* The products listener: the catalogue after an edit or a deletion of one product.
ProductsSnapshot(p, v) ==
  /\ p \in DOMAIN products
  /\ products' = IF v = 0
                 THEN [q \in DOMAIN products \ {p} |-> products[q]]
                 ELSE [products EXCEPT ![p] = ProductRecord(p, v)]
  /\ products' # products
  /\ alert' = "none"
  /\ UNCHANGED <<activeTab, settings, cartVars, isSaved, isSaving, storeVars, now>>
  /\ Effects

Tick ==
  /\ now < MaxClock
  /\ now' = now + 1
  /\ alert' = "none"
  /\ UNCHANGED <<activeTab, settings, products, cartVars, isSaved, isSaving, storeVars>>
  /\ Effects

\* ------------------------------------------------ amount in words
\* A JavaScript number that is a non-negative integer, coef * 10^exp10; a string is
\* the sequence of its characters, a wording the sequence of its words.
DigitChars == <<"0", "1", "2", "3", "4", "5", "6", "7", "8", "9">>
DigitChar(d) == DigitChars[d + 1]
IsDigit(c) == \E d \in 0..9 : DigitChars[d + 1] = c
DigitVal(c) == CHOOSE d \in 0..9 : DigitChars[d + 1] = c

RECURSIVE NatToString(_)
NatToString(n) ==
  IF n < 10 THEN <<DigitChar(n)>>
  ELSE NatToString(n \div 10) \o <<DigitChar(n % 10)>>

Zeros(k) == [i \in 1..k |-> "0"]

RECURSIVE StripTrailingZeros(_)
StripTrailingZeros(ds) ==
  IF Len(ds) > 1 /\ ds[Len(ds)] = "0"
  THEN StripTrailingZeros(SubSeq(ds, 1, Len(ds) - 1))
  ELSE ds

\* Number.prototype.toString: the decimal digits below 10^21, exponent notation
\* from 10^21 on.
NumberToString(x) ==
  LET ds == IF x.coef = 0 THEN <<"0">> ELSE NatToString(x.coef) \o Zeros(x.exp10)
  IN IF Len(ds) <= 21 THEN ds
     ELSE LET m == StripTrailingZeros(NatToString(x.coef))
          IN <<Head(m)>> \o (IF Len(m) > 1 THEN <<".">> \o Tail(m) ELSE <<>>)
               \o <<"e", "+">> \o NatToString(Len(ds) - 1)

\* The arrays a and b of numberToWords; a[0] is the empty string.
Ones == <<"One", "Two", "Three", "Four", "Five", "Six", "Seven", "Eight", "Nine",
          "Ten", "Eleven", "Twelve", "Thirteen", "Fourteen", "Fifteen", "Sixteen",
          "Seventeen", "Eighteen", "Nineteen">>
Tens == <<"", "Twenty", "Thirty", "Forty", "Fifty", "Sixty", "Seventy", "Eighty",
          "Ninety">>
aWord(i) == IF i = 0 THEN <<>> ELSE <<Ones[i]>>
bWord(i) == <<Tens[i]>>

\* Number(g) of a group of digits.
RECURSIVE GroupVal(_)
GroupVal(g) ==
  IF g = <<>> THEN 0
  ELSE 10 * GroupVal(SubSeq(g, 1, Len(g) - 1)) + DigitVal(g[Len(g)])

\* A wording that drops the unit of a number from 20 on.
GroupWordsTensOnly(g) ==
  IF GroupVal(g) < 20 THEN aWord(GroupVal(g)) ELSE bWord(DigitVal(g[1]))

\* a[Number(g)] || b[g[0]] + ' ' + a[g[1]]
GroupWords(g) ==
  IF GroupVal(g) < 20 THEN aWord(GroupVal(g))
  ELSE bWord(DigitVal(g[1])) \o aWord(DigitVal(g[2]))

Labelled(g, label) == IF GroupVal(g) # 0 THEN GroupWords(g) \o <<label>> ELSE <<>>

inWords(x) ==
  LET n == NumberToString(x)
  IN IF Len(n) > 9 THEN <<"overflow">>
     ELSE LET padded == Zeros(9) \o n
              s9 == SubSeq(padded, Len(padded) - 8, Len(padded))
          IN IF \E i \in 1..9 : ~IsDigit(s9[i]) THEN <<>>
             ELSE LET str == Labelled(SubSeq(s9, 1, 2), "Crore")
                               \o Labelled(SubSeq(s9, 3, 4), "Lakh")
                               \o Labelled(SubSeq(s9, 5, 6), "Thousand")
                               \o Labelled(SubSeq(s9, 7, 7), "Hundred")
                      rest == SubSeq(s9, 8, 9)
                  IN str \o (IF GroupVal(rest) # 0
                             THEN (IF str # <<>> THEN <<"and">> ELSE <<>>)
                                    \o GroupWords(rest)
                             ELSE <<>>)

numberToWords(x) ==
  IF x.coef = 0 THEN <<"Zero">> ELSE inWords(x) \o <<"Only">>

ProbeNums ==
  {999, 1000, 1001, 9999, 10000, 99999, 100000, 100001, 1234567, 9999999,
   10000000, 12345678, 123456789, 999999999, 1000000000, 2147483647}

WordsInputs ==
  {[coef |-> c, exp10 |-> 0] : c \in (0..MaxNum) \cup ProbeNums}
    \cup {[coef |-> c, exp10 |-> e] : c \in {1, 15, 125}, e \in {7, 9, 21}}

\* InvoiceTemplate renders the amount in words of a total.
InitWords ==
  /\ InitApp
  /\ InitHistory
  /\ inputNum \in WordsInputs
  /\ amountInWords = <<>>
  /\ totalWeightDisplay = <<"-">>

RenderWords ==
  /\ amountInWords = <<>>
  /\ amountInWords' = numberToWords(inputNum)
  /\ UNCHANGED <<activeTab, settings, hasUnsavedChanges, products, billNo, cartVars,
                 isSaved, isSaving, storeVars, now, alert, lastOp, inputNum,
                 totalWeightDisplay, historyVars>>

\* ---------------------------------------------------- total weight
\* The characters of the texts the model uses.
Chars(text) ==
  CASE text = "1 kg" -> <<"1", " ", "k", "g">>
    [] text = "500 gm" -> <<"5", "0", "0", " ", "g", "m">>
    [] text = "" -> <<>>
    [] text = "box" -> <<"b", "o", "x">>
    [] text = "1.5 Ltr" -> <<"1", ".", "5", " ", "L", "t", "r">>
    [] text = "250ml" -> <<"2", "5", "0", "m", "l">>
    [] text = "0.4 gm" -> <<"0", ".", "4", " ", "g", "m">>
    [] text = "999.6 g" -> <<"9", "9", "9", ".", "6", " ", "g">>
    [] text = " 2 KG " -> <<" ", "2", " ", "K", "G", " ">>
    [] text = "1. kg" -> <<"1", ".", " ", "k", "g">>
    [] text = "A" -> <<"A">>
    [] text = "Ab" -> <<"A", "b">>
    [] text = "ba" -> <<"b", "a">>
    [] text = "a" -> <<"a">>
    [] text = "B" -> <<"B">>
    [] text = "x" -> <<"x">>
    [] text = "1" -> <<"1">>
    [] text = "2" -> <<"2">>
    [] text = "3" -> <<"3">>
    [] text = "12" -> <<"1", "2">>
    [] text = "9" -> <<"9">>
    [] text = "10" -> <<"1", "0">>
    [] text = "typed" -> <<"t", "y", "p", "e", "d">>
    [] text = "03/11/2026" -> <<"0", "3", "/", "1", "1", "/", "2", "0", "2", "6">>
    [] text = "04/11/2026" -> <<"0", "4", "/", "1", "1", "/", "2", "0", "2", "6">>
    [] text = "05/11/2026" -> <<"0", "5", "/", "1", "1", "/", "2", "0", "2", "6">>
    [] text = "2026-11-04" -> <<"2", "0", "2", "6", "-", "1", "1", "-", "0", "4">>
    [] text = "2026-11-05" -> <<"2", "0", "2", "6", "-", "1", "1", "-", "0", "5">>
    [] text = "a,b" -> <<"a", ",", "b">>
    [] text = "q\"t" -> <<"q", "\"", "t">>
    [] text = "X" -> <<"X">>
    [] text = "04,11,2026" -> <<"0", "4", ",", "1", "1", ",", "2", "0", "2", "6">>
    [] text = "p1" -> <<"p", "1">>
    [] text = "p2" -> <<"p", "2">>
    [] text = "Kg" -> <<"K", "g">>
    [] text = "Pkt" -> <<"P", "k", "t">>
    [] text = "Bill No" -> <<"B", "i", "l", "l", " ", "N", "o">>
    [] text = "Date" -> <<"D", "a", "t", "e">>
    [] text = "Customer Name" -> <<"C", "u", "s", "t", "o", "m", "e", "r", " ", "N", "a", "m", "e">>
    [] text = "City" -> <<"C", "i", "t", "y">>
    [] text = "Items" -> <<"I", "t", "e", "m", "s">>
    [] text = "Total Amount" -> <<"T", "o", "t", "a", "l", " ", "A", "m", "o", "u", "n", "t">>

UpperLetters == <<"A", "B", "C", "D", "E", "F", "G", "H", "I", "J", "K", "L", "M",
                  "N", "O", "P", "Q", "R", "S", "T", "U", "V", "W", "X", "Y", "Z">>
LowerLetters == <<"a", "b", "c", "d", "e", "f", "g", "h", "i", "j", "k", "l", "m",
                  "n", "o", "p", "q", "r", "s", "t", "u", "v", "w", "x", "y", "z">>
LowerChar(c) ==
  IF \E i \in 1..26 : UpperLetters[i] = c
  THEN LowerLetters[CHOOSE i \in 1..26 : UpperLetters[i] = c]
  ELSE c
ToLowerCase(t) == [i \in 1..Len(t) |-> LowerChar(t[i])]

RECURSIVE TrimStart(_)
TrimStart(t) == IF t # <<>> /\ Head(t) = " " THEN TrimStart(Tail(t)) ELSE t
RECURSIVE TrimEnd(_)
TrimEnd(t) ==
  IF t # <<>> /\ t[Len(t)] = " " THEN TrimEnd(SubSeq(t, 1, Len(t) - 1)) ELSE t
TrimChars(t) == TrimEnd(TrimStart(t))

\* The number of characters from position i on that satisfy a test.
RECURSIVE DigitRun(_, _)
DigitRun(t, i) == IF i <= Len(t) /\ IsDigit(t[i]) THEN 1 + DigitRun(t, i + 1) ELSE 0
RECURSIVE SpaceRun(_, _)
SpaceRun(t, i) == IF i <= Len(t) /\ t[i] = " " THEN 1 + SpaceRun(t, i + 1) ELSE 0

HasPrefixAt(t, i, u) ==
  i + Len(u) - 1 <= Len(t) /\ SubSeq(t, i, i + Len(u) - 1) = u

\* kg|gm|g|ltr|ml|l, in the order the pattern tries them.
UnitAlternatives ==
  << <<"k", "g">>, <<"g", "m">>, <<"g">>, <<"l", "t", "r">>, <<"m", "l">>, <<"l">> >>

\* Weights are counted in tenths of a gram: the packing texts carry at most one
\* fractional digit.
WeightScale == 10

\* text.match(/^(\d+(\.\d+)?)\s*(kg|gm|g|ltr|ml|l)/): whether it matches, the value
\* of group 1 in tenths, and group 3.
MatchPacking(t) ==
  LET n1 == DigitRun(t, 1)
      hasFrac == n1 >= 1 /\ n1 + 1 <= Len(t) /\ t[n1 + 1] = "." /\ DigitRun(t, n1 + 2) >= 1
      n2 == IF hasFrac THEN DigitRun(t, n1 + 2) ELSE 0
      q == n1 + (IF hasFrac THEN 1 + n2 ELSE 0) + 1
      u == q + SpaceRun(t, q)
      found == {k \in 1..Len(UnitAlternatives) : HasPrefixAt(t, u, UnitAlternatives[k])}
  IN IF n1 = 0 \/ found = {}
     THEN [ok |-> FALSE, value |-> 0, unit |-> <<>>]
     ELSE [ok |-> TRUE,
           value |-> GroupVal(SubSeq(t, 1, n1)) * WeightScale
                       + (IF hasFrac THEN DigitVal(t[n1 + 2]) ELSE 0),
           unit |-> UnitAlternatives[CHOOSE k \in found : \A j \in found : k <= j]]

\* What one line adds to the total, in tenths of a gram.
LineGrams(item) ==
  IF item.packing = "" THEN 0
  ELSE LET match == MatchPacking(TrimChars(ToLowerCase(Chars(item.packing))))
       IN IF match.ok
          THEN (IF match.unit \in {<<"k", "g">>, <<"l", "t", "r">>, <<"l">>}
                THEN match.value * 1000 ELSE match.value) * item.quantity
          ELSE 0

RECURSIVE TotalGrams(_)
TotalGrams(its) ==
  IF its = <<>> THEN 0 ELSE TotalGrams(SubSeq(its, 1, Len(its) - 1)) + LineGrams(its[Len(its)])

\* The useMemo of totalWeightDisplay, as the characters of the text shown.
TotalWeightDisplay(its) ==
  LET totalGrams == TotalGrams(its)
      kg == totalGrams \div (1000 * WeightScale)
      gm == RoundDiv(totalGrams % (1000 * WeightScale), WeightScale)
      kgPart == IF kg > 0 THEN <<NatToString(kg) \o <<" ", "K", "g">>>> ELSE <<>>
      gmPart == IF gm > 0 THEN <<NatToString(gm) \o <<" ", "G", "m">>>> ELSE <<>>
      parts == kgPart \o gmPart
  IN IF totalGrams = 0 THEN <<"-">>
     ELSE IF Len(parts) = 0 THEN <<>>
     ELSE IF Len(parts) = 1 THEN parts[1]
     ELSE parts[1] \o <<" ">> \o parts[2]

WeightLine(pk, q) ==
  [id |-> "0", productId |-> "p1", name |-> "p1", quantity |-> q, unit |-> "Kg",
   rate |-> 2, amount |-> q * 2, packing |-> pk]

WeightCarts ==
  {<<WeightLine(pk, q)>> : pk \in PackingInputs, q \in QtyInputs}
    \cup {<<WeightLine(pk1, q1), WeightLine(pk2, q2)>> :
            pk1 \in PackingInputs, q1 \in QtyInputs,
            pk2 \in PackingInputs, q2 \in QtyInputs}

\* InvoiceTemplate renders the total weight of the lines it is given.
InitWeight ==
  /\ activeTab = "CREATE_BILL"
  /\ settings = DEFAULT_BUSINESS_SETTINGS
  /\ hasUnsavedChanges = TRUE
  /\ products = [p \in ProductIds |-> ProductRecord(p, 1)]
  /\ billNo = ToString(DEFAULT_BUSINESS_SETTINGS.nextInvoiceNumber)
  /\ date = Today /\ selectedCustomer = "null"
  /\ customerName = "" /\ customerCity = ""
  /\ items \in WeightCarts
  /\ isSaved = FALSE /\ isSaving = FALSE
  /\ storedSettings = DEFAULT_BUSINESS_SETTINGS
  /\ invoicesDb = [b \in {} |-> b]
  /\ writeQ = <<>> /\ now = 0 /\ alert = "none" /\ lastOp = "init"
  /\ InitHistory
  /\ inputNum = [coef |-> 0, exp10 |-> 0]
  /\ amountInWords = <<"Zero">>
  /\ totalWeightDisplay = <<"none">>

RenderWeight ==
  /\ totalWeightDisplay = <<"none">>
  /\ totalWeightDisplay' = TotalWeightDisplay(items)
  /\ UNCHANGED <<activeTab, settings, hasUnsavedChanges, products, billNo, cartVars,
                 isSaved, isSaving, storeVars, now, alert, lastOp, inputNum,
                 amountInWords, historyVars>>

\* ------------------------------------------------- invoice history
\* String.prototype.includes
Includes(t, u) ==
  \E i \in 1..(Len(t) - Len(u) + 1) : SubSeq(t, i, i + Len(u) - 1) = u

\* String.prototype.split on a one-character separator.
RECURSIVE Split(_, _)
Split(t, sep) ==
  IF \E i \in 1..Len(t) : t[i] = sep
  THEN LET i == CHOOSE k \in 1..Len(t) : t[k] = sep /\ \A j \in 1..(k - 1) : t[j] # sep
       IN <<SubSeq(t, 1, i - 1)>> \o Split(SubSeq(t, i + 1, Len(t)), sep)
  ELSE <<t>>

\* Number(text) is a number (0 for the empty text) when all characters are digits,
\* NaN otherwise.
IsNumeric(t) == \A i \in 1..Len(t) : IsDigit(t[i])

\* A Date at local midnight is its local calendar day; an Invalid Date has none.
\* The days given are days of the calendar (new Date does not have to normalise).
InvalidDate == [valid |-> FALSE, y |-> 0, m |-> 0, d |-> 0]
LocalDay(y, m, d) == [valid |-> TRUE, y |-> y, m |-> m, d |-> d]

IsLeapYear(y) == (y % 4 = 0 /\ y % 100 # 0) \/ y % 400 = 0
DaysInMonth(y, m) ==
  IF m = 2 THEN (IF IsLeapYear(y) THEN 29 ELSE 28)
  ELSE IF m \in {4, 6, 9, 11} THEN 30 ELSE 31
PrevDay(dt) ==
  IF dt.d > 1 THEN LocalDay(dt.y, dt.m, dt.d - 1)
  ELSE IF dt.m > 1 THEN LocalDay(dt.y, dt.m - 1, DaysInMonth(dt.y, dt.m - 1))
  ELSE LocalDay(dt.y - 1, 12, 31)

\* invDate < other on two Dates; false when either is invalid.
DateBefore(x, y) ==
  /\ x.valid /\ y.valid
  /\ \/ x.y < y.y
     \/ x.y = y.y /\ x.m < y.m
     \/ x.y = y.y /\ x.m = y.m /\ x.d < y.d

\* new Date(year, month - 1, day) of the three parts, then setHours(0, 0, 0, 0).
InvDate(parts) ==
  IF IsNumeric(parts[1]) /\ IsNumeric(parts[2]) /\ IsNumeric(parts[3])
  THEN LocalDay(GroupVal(parts[3]), GroupVal(parts[2]), GroupVal(parts[1]))
  ELSE InvalidDate

\* new Date("YYYY-MM-DD") is midnight UTC of that day; setHours(0, 0, 0, 0) moves
\* it to the local midnight of the local day that instant falls on.
InputDate(text, offset) ==
  LET parts == Split(Chars(text), "-")
      utcDay == LocalDay(GroupVal(parts[1]), GroupVal(parts[2]), GroupVal(parts[3]))
  IN IF offset > 0 THEN PrevDay(utcDay) ELSE utcDay

matchesSearch(invoice, term) ==
  \/ Includes(ToLowerCase(Chars(invoice.customerName)), ToLowerCase(Chars(term)))
  \/ Includes(ToLowerCase(Chars(invoice.id)), ToLowerCase(Chars(term)))

matchesDate(invoice, start, end, offset) ==
  IF start = "" /\ end = "" THEN TRUE
  ELSE LET parts == Split(Chars(invoice.date), "/")
       IN IF Len(parts) # 3 THEN TRUE
          ELSE /\ ~(start # "" /\ DateBefore(InvDate(parts), InputDate(start, offset)))
               /\ ~(end # "" /\ DateBefore(InputDate(end, offset), InvDate(parts)))

\* A reading of a bill id that stops after its first digit.
ParseIntLeadingDigit(t) == GroupVal(SubSeq(t, 1, IF DigitRun(t, 1) > 0 THEN 1 ELSE 0))

\* parseInt of a bill id that starts with digits.
ParseInt(t) == GroupVal(SubSeq(t, 1, DigitRun(t, 1)))

\* sort((a, b) => parseInt(b.id) - parseInt(a.id))
RECURSIVE SortByIdDesc(_)
SortByIdDesc(S) ==
  IF S = {} THEN <<>>
  ELSE LET top == CHOOSE x \in S :
                    \A y \in S : ParseInt(Chars(y.id)) <= ParseInt(Chars(x.id))
       IN <<top>> \o SortByIdDesc(S \ {top})

\* The invoices prop: the documents of the collection.
Invoices(db) == {db[k] : k \in DOMAIN db}

\* The useMemo of filteredInvoices.
FilteredInvoices(db, term, start, end, offset) ==
  SortByIdDesc({inv \in Invoices(db) :
                  matchesSearch(inv, term) /\ matchesDate(inv, start, end, offset)})

HistoryInvoice(id, name, dt) ==
  [id |-> id, date |-> dt, customerName |-> name, customerCity |-> "", items |-> <<>>,
   total |-> 0, subtotal |-> 0, gstAmount |-> 0, gstRate |-> 0, sgstAmount |-> 0,
   cgstAmount |-> 0]

HistorySamples ==
  [k \in {"1", "2", "3", "9", "10", "12"} |->
     CASE k = "1" -> HistoryInvoice("1", "A", "03/11/2026")
       [] k = "2" -> HistoryInvoice("2", "Ab", "04/11/2026")
       [] k = "3" -> HistoryInvoice("3", "A", "typed")
       [] k = "9" -> HistoryInvoice("9", "Ab", "04/11/2026")
       [] k = "10" -> HistoryInvoice("10", "ba", "05/11/2026")
       [] k = "12" -> HistoryInvoice("12", "ba", "05/11/2026")]

\* The Invoice History tab over a collection of saved invoices.
InitInvoiceHistory ==
  /\ activeTab = "INVOICE_HISTORY"
  /\ settings = DEFAULT_BUSINESS_SETTINGS
  /\ hasUnsavedChanges = FALSE
  /\ products = [p \in ProductIds |-> ProductRecord(p, 1)]
  /\ billNo = ""
  /\ date = Today /\ selectedCustomer = "null"
  /\ customerName = "" /\ customerCity = ""
  /\ items = <<>>
  /\ isSaved = FALSE /\ isSaving = FALSE
  /\ storedSettings = DEFAULT_BUSINESS_SETTINGS
  /\ \E S \in SUBSET DOMAIN HistorySamples : invoicesDb = [k \in S |-> HistorySamples[k]]
  /\ writeQ = <<>> /\ now = 0 /\ alert = "none" /\ lastOp = "init"
  /\ InitView
  /\ searchTerm = "" /\ startDate = "" /\ endDate = ""
  /\ timezoneOffset \in TimezoneOffsets
  /\ filteredInvoices = FilteredInvoices(invoicesDb, "", "", "", timezoneOffset)
  /\ csvContent = <<>>

\* A change of a filter control and the render that follows it.
Refilter ==
  /\ filteredInvoices' =
       FilteredInvoices(invoicesDb, searchTerm', startDate', endDate', timezoneOffset)
  /\ UNCHANGED <<activeTab, settings, hasUnsavedChanges, products, billNo, cartVars,
                 isSaved, isSaving, storeVars, now, alert, lastOp, viewVars,
                 csvContent, timezoneOffset>>

SetSearchTerm(v) ==
  /\ activeTab = "INVOICE_HISTORY"
  /\ v # searchTerm
  /\ searchTerm' = v
  /\ UNCHANGED <<startDate, endDate>>
  /\ Refilter

SetStartDate(v) ==
  /\ activeTab = "INVOICE_HISTORY"
  /\ v # startDate
  /\ startDate' = v
  /\ UNCHANGED <<searchTerm, endDate>>
  /\ Refilter

SetEndDate(v) ==
  /\ activeTab = "INVOICE_HISTORY"
  /\ v # endDate
  /\ endDate' = v
  /\ UNCHANGED <<searchTerm, startDate>>
  /\ Refilter

\* ------------------------------------------------------- CSV export
\* Array.prototype.join
RECURSIVE Join(_, _)
Join(parts, sep) ==
  IF parts = <<>> THEN <<>>
  ELSE IF Len(parts) = 1 THEN parts[1]
       ELSE parts[1] \o sep \o Join(Tail(parts), sep)

\* replace(/"/g, '""')
RECURSIVE DoubleQuotes(_)
DoubleQuotes(t) ==
  IF t = <<>> THEN <<>>
  ELSE (IF Head(t) = "\"" THEN <<"\"", "\"">> ELSE <<Head(t)>>) \o DoubleQuotes(Tail(t))

Quoted(t) == <<"\"">> \o DoubleQuotes(t) \o <<"\"">>

\* `${item.name}${item.packing ? ` ${item.packing}` : ''} (${item.quantity} ${item.unit})`
ItemText(item) ==
  Chars(item.name) \o (IF item.packing # "" THEN <<" ">> \o Chars(item.packing) ELSE <<>>)
    \o <<" ", "(">> \o NatToString(item.quantity) \o <<" ">> \o Chars(item.unit) \o <<")">>

ItemsString(its) == Join([i \in 1..Len(its) |-> ItemText(its[i])], <<",", " ">>)

CsvRow(inv) ==
  Join(<<Chars(inv.id),
         Chars(inv.date),
         Quoted(Chars(inv.customerName)),
         Quoted(Chars(inv.customerCity)),
         Quoted(ItemsString(inv.items)),
         NatToString(inv.total)>>, <<",">>)

CsvHeaders == <<"Bill No", "Date", "Customer Name", "City", "Items", "Total Amount">>

CsvContent(list) ==
  Join(<<Join([i \in 1..Len(CsvHeaders) |-> Chars(CsvHeaders[i])], <<",">>)>>
         \o [i \in 1..Len(list) |-> CsvRow(list[i])], <<"\n">>)

\* The Export CSV button; the text is what the Blob is made of.
handleExportCSV ==
  /\ activeTab = "INVOICE_HISTORY"
  /\ IF Len(filteredInvoices) = 0
     THEN UNCHANGED csvContent
     ELSE csvContent' = CsvContent(filteredInvoices)
  /\ UNCHANGED <<activeTab, settings, hasUnsavedChanges, products, billNo, cartVars,
                 isSaved, isSaving, storeVars, now, alert, lastOp, viewVars,
                 searchTerm, startDate, endDate, filteredInvoices, timezoneOffset>>

\* Invoices as the Create Bill view saves them: free text in the name, the city,
\* the date and the product names.
ExportLine(name, packing, qty, unit, rate) ==
  [id |-> "0", productId |-> "p1", name |-> name, quantity |-> qty, unit |-> unit,
   rate |-> rate, amount |-> qty * rate, packing |-> packing]

ExportCarts ==
  {<<ExportLine("p1", "1 kg", 2, "Kg", 2)>>,
   <<ExportLine("a,b", "", 1, "Pkt", 5), ExportLine("q\"t", "500 gm", 1, "Kg", 3)>>}

ExportInvoice(id, name, city, dt, its) ==
  [id |-> id, date |-> dt, customerName |-> name, customerCity |-> city, items |-> its,
   total |-> SumAmounts(its), subtotal |-> SumAmounts(its), gstAmount |-> 0,
   gstRate |-> 0, sgstAmount |-> 0, cgstAmount |-> 0]

ExportInvoices(id) ==
  {ExportInvoice(id, name, city, dt, its) :
     name \in {"A", "a,b", "q\"t"}, city \in {"", "X"},
     dt \in {"04/11/2026", "04,11,2026"}, its \in ExportCarts}

\* The Invoice History view over saved invoices with free text in them.
InitExport ==
  /\ activeTab = "INVOICE_HISTORY"
  /\ settings = DEFAULT_BUSINESS_SETTINGS
  /\ hasUnsavedChanges = FALSE
  /\ products = [p \in ProductIds |-> ProductRecord(p, 1)]
  /\ billNo = ""
  /\ date = Today /\ selectedCustomer = "null"
  /\ customerName = "" /\ customerCity = ""
  /\ items = <<>>
  /\ isSaved = FALSE /\ isSaving = FALSE
  /\ storedSettings = DEFAULT_BUSINESS_SETTINGS
  /\ \E S \in SUBSET {"1", "2"} :
       invoicesDb \in [S -> UNION {ExportInvoices(k) : k \in S}]
  /\ \A k \in DOMAIN invoicesDb : invoicesDb[k].id = k
  /\ writeQ = <<>> /\ now = 0 /\ alert = "none" /\ lastOp = "init"
  /\ InitView
  /\ searchTerm = "" /\ startDate = "" /\ endDate = ""
  /\ timezoneOffset = 0
  /\ filteredInvoices = FilteredInvoices(invoicesDb, "", "", "", timezoneOffset)
  /\ csvContent = <<>>

\* ------------------------------------------------------- specifications
\* A step of the application; lastOp is not recorded.
App(A) == A /\ UNCHANGED <<lastOp, viewVars, historyVars>>
\* A step of the cart manager, recorded in lastOp.
Op(name, A) == A /\ lastOp' = name /\ UNCHANGED <<viewVars, historyVars>>

LineIds == {items[i].id : i \in 1..Len(items)}

\* The application: the cart of one product and its customer name, save,
\* navigation, the counter and the store.
Next ==
  \/ App(\E q \in {1} : addItem("p1", q))
  \/ App(\E id \in LineIds, d \in Deltas : updateItemQty(id, d))
  \/ App(\E id \in LineIds : removeItem(id))
  \/ App(\E c \in BOOLEAN : NewBillHeader(c))
  \/ App(NewBillSaved)
  \/ App(\E v \in NameInputs : SetCustomerName(v))
  \/ App(handleSave)
  \/ App(\E t \in Tabs, c \in BOOLEAN : handleTabChange(t, c))
  \/ App(\E n \in 0..MaxCounter : SetNextInvoiceNumber(n))
  \/ App(InvoiceWriteOk)
  \/ App(InvoiceWriteFail)
  \/ App(SettingsWriteOk)
  \/ App(SettingsWriteFail)
  \/ App(SettingsSnapshot)

Spec == Init /\ [][Next]_vars

\* A store write in flight settles: its promise resolves or rejects.
Settle ==
  \/ App(InvoiceWriteOk)
  \/ App(InvoiceWriteFail)
  \/ App(SettingsWriteOk)
  \/ App(SettingsWriteFail)

\* The application with every store write settling in the end.
SpecLive == Init /\ [][Next]_vars /\ WF_vars(Settle)

\* The Create Bill view with every header control: the cart of one product, the
\* header, save and its settlement, navigation.
NextLock ==
  \/ App(\E q \in {1} : addItem("p1", q))
  \/ App(\E id \in LineIds, d \in Deltas : updateItemQty(id, d))
  \/ App(\E id \in LineIds : removeItem(id))
  \/ App(\E c \in BOOLEAN : NewBillHeader(c))
  \/ App(NewBillSaved)
  \/ App(\E c \in CustomerIds \cup {"new"} : handleCustomerSelect(c))
  \/ App(\E v \in NameInputs : SetCustomerName(v))
  \/ App(\E v \in CityInputs : SetCustomerCity(v))
  \/ App(\E v \in DateInputs : SetDate(v))
  \/ App(handleSave)
  \/ App(\E t \in Tabs, c \in BOOLEAN : handleTabChange(t, c))
  \/ App(InvoiceWriteOk)
  \/ App(InvoiceWriteFail)
  \/ App(SettingsWriteOk)
  \/ App(SettingsWriteFail)

SpecLock == Init /\ [][NextLock]_vars

\* Selling: the cart over the whole catalogue and every quantity entry, and saves
\* whose writes go through.
NextSale ==
  \/ App(\E p \in ProductIds, q \in QtyInputs : addItem(p, q))
  \/ App(\E id \in LineIds, d \in Deltas : updateItemQty(id, d))
  \/ App(\E id \in LineIds : removeItem(id))
  \/ App(SetCustomerName("A"))
  \/ App(handleSave)
  \/ App(NewBillSaved)
  \/ App(InvoiceWriteOk)
  \/ App(SettingsWriteOk)

SpecSale == Init /\ [][NextSale]_vars

\* The catalogue: product p1 is sold, edited and deleted while bills with it are
\* made and saved.
NextCatalog ==
  \/ App(addItem("p1", 1))
  \/ App(\E id \in LineIds : removeItem(id))
  \/ App(SetCustomerName("A"))
  \/ App(\E v \in 0..2 : ProductsSnapshot("p1", v))
  \/ App(handleSave)
  \/ App(NewBillSaved)
  \/ App(InvoiceWriteOk)
  \/ App(SettingsWriteOk)

SpecCatalog == Init /\ [][NextCatalog]_vars

\* Tax: the tax settings are changed in Settings, carts are filled in Create Bill.
NextTax ==
  \/ App(\E t \in {"CREATE_BILL", "SETTINGS"} : handleTabChange(t, TRUE))
  \/ App(\E b \in BOOLEAN : SetEnableGst(b))
  \/ App(\E r \in GstRateInputs : SetDefaultGstRate(r))
  \/ App(SettingsWriteOk)
  \/ App(\E p \in ProductIds, q \in QtyInputs : addItem(p, q))
  \/ App(\E id \in LineIds, d \in Deltas : updateItemQty(id, d))

SpecTax == Init /\ [][NextTax]_vars

\* Billing under tax: tax settings are changed in Settings, bills are made and saved in Create Bill, and Invoice History is visited.
NextBillTax ==
  \/ App(\E t \in Tabs : handleTabChange(t, TRUE))
  \/ App(\E b \in BOOLEAN : SetEnableGst(b))
  \/ App(\E r \in {5, 12} : SetDefaultGstRate(r))
  \/ App(SettingsWriteOk)
  \/ App(\E p \in ProductIds, q \in {1, 2} : addItem(p, q))
  \/ App(SetCustomerName("A"))
  \/ App(handleSave)
  \/ App(InvoiceWriteOk)

SpecBillTax == Init /\ [][NextBillTax]_vars

\* Overlap: bills of one product are saved while the operator moves between the
\* tabs and changes the tax setting, with up to MaxPending writes in flight.
NextPending ==
  \/ App(addItem("p1", 1))
  \/ App(SetCustomerName("A"))
  \/ App(handleSaveWithin(MaxPending))
  \/ App(NewBillSaved)
  \/ App(\E t \in Tabs : handleTabChange(t, TRUE))
  \/ App(\E b \in BOOLEAN : SetEnableGstWithin(b, MaxPending))
  \/ App(InvoiceWriteOk)
  \/ App(InvoiceWriteFail)
  \/ App(SettingsWriteOk)
  \/ App(SettingsWriteFail)

SpecPending == Init /\ [][NextPending]_vars

\* Navigation: the cart and its header are edited and saved, and the operator
\* clicks the tabs, ready to confirm or to decline the discard prompt.
NextNav ==
  \/ Op("addItem", addItem("p1", 1))
  \/ \E id \in LineIds : Op("removeItem", removeItem(id))
  \/ \E v \in NameInputs : Op("setCustomerName", SetCustomerName(v))
  \/ \E v \in CityInputs : Op("setCustomerCity", SetCustomerCity(v))
  \/ Op("handleSave", handleSave)
  \/ Op("newBill", NewBillSaved)
  \/ Op("invoiceWriteOk", InvoiceWriteOk)
  \/ Op("settingsWriteOk", SettingsWriteOk)
  \/ \E t \in Tabs : Op("confirmLeave", handleTabChange(t, TRUE))
  \/ \E t \in Tabs : Op("declineLeave", handleTabChange(t, FALSE))

SpecNav == Init /\ [][NextNav]_vars

\* The amount in words of the preview, over a set of totals.
NextWords == RenderWords

SpecWords == InitWords /\ [][NextWords]_vars

\* The total weight of the preview, over a set of carts.
NextWeight == RenderWeight

SpecWeight == InitWeight /\ [][NextWeight]_vars

\* The Invoice History view: its three filter controls.
NextHistory ==
  \/ \E v \in SearchInputs : SetSearchTerm(v)
  \/ \E v \in FilterDateInputs : SetStartDate(v)
  \/ \E v \in FilterDateInputs : SetEndDate(v)

SpecHistory == InitInvoiceHistory /\ [][NextHistory]_vars

\* The CSV export of the Invoice History view.
NextExport == handleExportCSV

SpecExport == InitExport /\ [][NextExport]_vars

\* The cart manager alone, over the whole catalogue and every quantity entry.
NextCart ==
  \/ \E p \in ProductIds, q \in QtyInputs : Op("addItem", addItem(p, q))
  \/ \E id \in LineIds, d \in Deltas : Op("updateItemQty", updateItemQty(id, d))
  \/ \E id \in LineIds : Op("removeItem", removeItem(id))
  \/ \E c \in BOOLEAN : Op("resetForm", NewBillHeader(c))
  \/ \E p \in ProductIds, v \in 0..2 : Op("productsSnapshot", ProductsSnapshot(p, v))
  \/ Op("tick", Tick)

SpecCart == Init /\ [][NextCart]_vars
\* ------------------------------------------------------------------ claims
Unmounts == activeTab = "CREATE_BILL" /\ activeTab' # "CREATE_BILL"

\* A save of the mounted view is in flight: handleSave awaits onSaveInvoice.
SaveInFlight == \E i \in 1..Len(writeQ) : writeQ[i].fromSave /\ writeQ[i].attached

\* C1 as stated: once a save has locked the cart, only reset() unlocks it.
C1_UnlockedOnlyByReset ==
  [][(Mounted /\ isSaved /\ activeTab' = "CREATE_BILL" /\ ~isSaved') => resetForm]_vars

\* C1 amended: handleSave locks the cart in the step that issues the persistence
\* call; while it is locked no step changes its lines or header except reset() and
\* leaving the view, and the lock ends only by reset(), by the failure of the
\* invoice write, or by leaving the view; an unlocked cart accepts addItem.
C1_LockedUntilResetOrFailure ==
  /\ [][(isSaving' /\ ~isSaving) => (isSaved' /\ Len(writeQ') = Len(writeQ) + 1)]_vars
  /\ [][(Mounted /\ isSaved) =>
          /\ (cartVars' # cartVars => (resetForm \/ Unmounts))
          /\ (~isSaved' => (resetForm \/ InvoiceWriteFail \/ Unmounts))]_vars
  /\ [](Editable /\ items = <<>> => ENABLED addItem("p1", 1))

\* C1 witness: a save is still in flight, reset() has unlocked the cart and
\* addItem has put a line into it.
C1_Witness == SaveInFlight /\ Mounted /\ ~isSaved /\ isSaving /\ Len(items) > 0

\* C2 as stated: while a save of the view is outstanding, the bill number shown
\* does not change and no step adds an item to the cart.
C2_StableWhileSaveOutstanding ==
  [][(SaveInFlight /\ SaveInFlight') =>
        /\ billNo' = billNo
        /\ ~(\E p \in ProductIds, q \in QtyInputs : addItem(p, q))]_vars

\* C3 as stated, for the saves whose cart the operator has not reset: when the
\* invoice write fails, the view holds the cart unlocked, with the lines and the
\* header the save was initiated with.
C3_CartKeptOnFailure ==
  [][(InvoiceWriteFail /\ (Mounted => isSaved)) =>
        /\ activeTab' = "CREATE_BILL"
        /\ ~isSaved'
        /\ items' = Head(writeQ).invoice.items
        /\ date' = Head(writeQ).invoice.date
        /\ customerName' = Head(writeQ).invoice.customerName
        /\ customerCity' = Head(writeQ).invoice.customerCity]_vars

\* C4 as stated: when the counter advance of a save fails after its invoice was
\* persisted, the save does not end reporting plain success.
C4_CounterFailureSurfaced ==
  [][(SettingsWriteFail /\ Head(writeQ).fromSave) => alert' # "saved"]_vars

\* C5 as stated: a document stored under a bill number is never changed or
\* replaced by a later step.
C5_PersistedInvoiceImmutable ==
  [][\A b \in DOMAIN invoicesDb :
        b \in DOMAIN invoicesDb' /\ invoicesDb'[b] = invoicesDb[b]]_vars

\* C6 as stated: a save that ends reporting success has persisted its document and
\* leaves the stored counter exactly one above what it was.
C6_CounterAdvancedByOne ==
  [][alert' = "saved" =>
        /\ Head(writeQ).invoice.id \in DOMAIN invoicesDb'
        /\ storedSettings'.nextInvoiceNumber = storedSettings.nextInvoiceNumber + 1]_vars

SaveInitiated ==
  \/ ~isSaved /\ isSaved'
  \/ ~isSaving /\ isSaving'
  \/ Len(writeQ') = Len(writeQ) + 1 /\ writeQ'[Len(writeQ')].kind = "invoice"

ValidInvoice(inv) == Len(inv.items) > 0 /\ Trim(inv.customerName) # ""

\* C7: a save is initiated only from a cart with at least one line and a non-blank
\* customer name; with no line or a blank name the Save control does nothing, so
\* nothing is locked, issued or persisted for such a cart.
C7_InvalidSaveRejected ==
  /\ [][SaveInitiated => (Len(items) > 0 /\ Trim(customerName) # "")]_vars
  /\ [](Mounted /\ (Len(items) = 0 \/ Trim(customerName) = "") => ~ENABLED handleSave)
  /\ [](\A i \in 1..Len(writeQ) : writeQ[i].fromSave => ValidInvoice(writeQ[i].invoice))
  /\ [](\A b \in DOMAIN invoicesDb : ValidInvoice(invoicesDb[b]))

\* C7 witness: a cart with a line and a blank customer name, unlocked and with no
\* save in flight, after an earlier save went through: Save is refused for the
\* name alone.
C7_Witness ==
  /\ Mounted /\ Len(items) > 0 /\ customerName = " "
  /\ ~isSaved /\ ~isSaving /\ writeQ = <<>>
  /\ ~ENABLED handleSave
  /\ DOMAIN invoicesDb # {}

\* C8: updateItemQty sets the quantity of the line it targets to
\* max(1, old quantity + delta) and leaves the other lines' quantities alone; the
\* result is never below 1 for any delta, and a decrement at quantity 1 keeps 1.
C8_AdjustQuantityFloor ==
  /\ [][lastOp' = "updateItemQty" =>
          \E id \in LineIds, d \in Deltas :
            /\ Len(items') = Len(items)
            /\ \A i \in 1..Len(items) :
                 IF items[i].id = id
                 THEN /\ items'[i].quantity =
                           (IF items[i].quantity + d < 1 THEN 1 ELSE items[i].quantity + d)
                      /\ items'[i].quantity >= 1
                      /\ (items[i].quantity = 1 /\ d = -1 => items'[i].quantity = 1)
                 ELSE items'[i].quantity = items[i].quantity]_vars
  /\ [](\A q \in 0..MaxQty, d \in (0 - MaxDelta)..MaxDelta :
          /\ NewQty(q, d) >= 1
          /\ NewQty(q, d) = (IF q + d < 1 THEN 1 ELSE q + d))

\* C8 witness: updateItemQty has just acted and left a line at quantity 1.
C8_Witness ==
  /\ lastOp = "updateItemQty"
  /\ \E i \in 1..Len(items) : items[i].quantity = 1

\* C9: the cart never holds two lines with the same product id; addItem for a
\* product that has a line adds the quantity to that line, sets its amount to
\* quantity * rate and keeps the number of lines; otherwise it appends one line.
C9_OneLinePerProduct ==
  /\ [](\A i, j \in 1..Len(items) : items[i].productId = items[j].productId => i = j)
  /\ [][lastOp' = "addItem" =>
          \E p \in DOMAIN products, q \in QtyInputs :
            IF \E i \in 1..Len(items) : items[i].productId = p
            THEN /\ Len(items') = Len(items)
                 /\ \A i \in 1..Len(items) :
                      IF items[i].productId = p
                      THEN /\ items'[i].quantity = items[i].quantity + q
                           /\ items'[i].amount = items'[i].quantity * items'[i].rate
                           /\ items'[i].rate = items[i].rate
                           /\ items'[i].id = items[i].id
                      ELSE items'[i] = items[i]
            ELSE /\ Len(items') = Len(items) + 1
                 /\ SubSeq(items', 1, Len(items)) = items
                 /\ items'[Len(items')].productId = p
                 /\ items'[Len(items')].quantity = q]_vars

\* C9 witness: addItem has just acted at clock 1 and the cart still holds the
\* single line created at clock 0, so the call merged into it.
C9_Witness ==
  /\ lastOp = "addItem"
  /\ now = 1
  /\ Len(items) = 1
  /\ items[1].id = "0"
  /\ items[1].quantity = 2

\* C10: every line of the cart has amount = quantity * rate.
C10_AmountIsQuantityTimesRate ==
  \A i \in 1..Len(items) : items[i].amount = items[i].quantity * items[i].rate

\* C10 witness: addItem or updateItemQty has just acted on a cart holding a line
\* of quantity 2 whose rate is no longer the catalogue's rate of its product.
C10_Witness ==
  /\ lastOp \in {"addItem", "updateItemQty"}
  /\ \E i \in 1..Len(items) :
       /\ items[i].quantity = 2
       /\ items[i].productId \in DOMAIN products
       /\ products[items[i].productId].rate # items[i].rate

\* C11 as stated: no line of a saved invoice has a quantity below 1, whatever the
\* quantity entry held when addItem ran.
C11_SavedQuantitiesPositive ==
  \A b \in DOMAIN invoicesDb :
    \A i \in 1..Len(invoicesDb[b].items) : invoicesDb[b].items[i].quantity >= 1

\* What a line copies from its product.
Snapshot(line) ==
  [name |-> line.name, rate |-> line.rate, unit |-> line.unit, packing |-> line.packing]

\* C12: a new line copies name, rate, unit and packing from the product as it is
\* when the line is added; a line that stays in the cart keeps them in every step,
\* also when addItem merges into it; and a step that edits or deletes a product
\* changes neither the cart nor a saved invoice nor an invoice being written.
C12_LineKeepsProductSnapshot ==
  /\ [][Len(items') = Len(items) + 1 =>
          LET l == items'[Len(items')]
          IN /\ l.productId \in DOMAIN products
             /\ Snapshot(l) = Snapshot(products[l.productId])]_vars
  /\ [][\A i \in 1..Len(items), j \in 1..Len(items') :
          (items'[j].id = items[i].id /\ items'[j].productId = items[i].productId)
            => Snapshot(items'[j]) = Snapshot(items[i])]_vars
  /\ [][products' # products =>
          /\ items' = items
          /\ invoicesDb' = invoicesDb
          /\ \A i \in 1..Len(writeQ) :
               i <= Len(writeQ') /\ writeQ'[i].invoice = writeQ[i].invoice]_vars

\* C12 witness: the product was edited after its line was added, the line has been
\* merged into (quantity 2) and still differs from the catalogue, and so does a
\* line of a saved invoice.
C12_Witness ==
  /\ "p1" \in DOMAIN products
  /\ \E i \in 1..Len(items) :
       /\ items[i].productId = "p1"
       /\ items[i].quantity = 2
       /\ Snapshot(items[i]) # Snapshot(products["p1"])
  /\ \E b \in DOMAIN invoicesDb : \E j \in 1..Len(invoicesDb[b].items) :
       Snapshot(invoicesDb[b].items[j]) # Snapshot(products["p1"])

\* C13 as stated: the unsaved-changes flag is true exactly when the cart has a line
\* or the customer name or city is a non-empty string, and the cart is not locked.
C13_SignalIffNonEmpty ==
  hasUnsavedChanges =
    ((Len(items) > 0 \/ customerName # "" \/ customerCity # "") /\ ~isSaved)

\* C13 amended: the unsaved-changes flag is true exactly when the cart has a line
\* or the customer name or city is non-blank (non-empty once trimmed), and the
\* cart is not locked.
C13_SignalIffNonBlank ==
  hasUnsavedChanges =
    ((Len(items) > 0 \/ Trim(customerName) # "" \/ Trim(customerCity) # "") /\ ~isSaved)

\* C13 witness: an unlocked cart with no line whose customer name is one blank:
\* the flag is false.
C13_Witness ==
  /\ Mounted /\ ~isSaved
  /\ items = <<>> /\ customerName = " " /\ customerCity = ""
  /\ ~hasUnsavedChanges

\* C14: every step that runs resetForm, from an editable, a saving or a locked
\* cart, ends with no line, empty customer name and city, no selected customer,
\* today's date and the cart unlocked (its controls take input again).
C14_ResetClearsCart ==
  [][(Mounted /\ resetForm) =>
        /\ items' = <<>>
        /\ customerName' = ""
        /\ customerCity' = ""
        /\ selectedCustomer' = "null"
        /\ date' = Today
        /\ ~isSaved'
        /\ ~hasUnsavedChanges']_vars

\* C14 witness: a save is still in flight for this view and the cart it locked is
\* empty, unlocked and dated today again: New Bill ran while saving.
C14_Witness ==
  /\ SaveInFlight /\ Mounted /\ isSaving
  /\ Head(writeQ).invoice.date = "typed"
  /\ Head(writeQ).invoice.customerCity = "X"
  /\ items = <<>> /\ customerName = "" /\ customerCity = ""
  /\ selectedCustomer = "null" /\ date = Today /\ ~isSaved

\* k is num/den rounded to the nearest integer, halves upwards (den > 0).
IsRounded(k, num, den) ==
  2 * den * k - den <= 2 * num /\ 2 * num < 2 * den * k + den

\* C15: for the cart and the tax settings of every state: with tax enabled at rate
\* R both tax components are round(subtotal * (R/2) / 100) and equal, with tax
\* disabled both are 0; the grand total is subtotal plus both components; the
\* preview's calculator and the invoice composed for saving give the same figures.
C15_TaxComponents ==
  LET sub == Subtotal(items)
      a == SgstAmount(items, settings)
      b == CgstAmount(items, settings)
  IN /\ settings.enableGst =>
          /\ IsRounded(a, sub * settings.defaultGstRate, 200)
          /\ IsRounded(b, sub * settings.defaultGstRate, 200)
     /\ ~settings.enableGst => (a = 0 /\ b = 0 /\ GrandTotal(items, settings) = sub)
     /\ a = b
     /\ GrandTotal(items, settings) = sub + a + b
     /\ CalcSubtotal(items) = sub
     /\ CalcSgst(items, settings, Undefined) = a
     /\ CalcCgst(items, settings, Undefined) = b
     /\ TotalAmount(items, settings, Undefined) = GrandTotal(items, settings)
     /\ ComposeInvoice.sgstAmount = a /\ ComposeInvoice.cgstAmount = b
     /\ ComposeInvoice.gstAmount = a + b
     /\ ComposeInvoice.total = sub + a + b

\* C15 witness: a cart shown with tax enabled whose half-rate tax is exactly a
\* half above an integer, so that rounding decides the component.
C15_Witness ==
  /\ Mounted /\ settings.enableGst
  /\ Len(items) > 0
  /\ (Subtotal(items) * GstRate(settings)) % 200 = 100
  /\ SgstAmount(items, settings) >= 1

RECURSIVE SumQuantityTimesRate(_)
SumQuantityTimesRate(s) ==
  IF s = <<>> THEN 0
  ELSE Head(s).quantity * Head(s).rate + SumQuantityTimesRate(Tail(s))

\* C16: the subtotal of the cart is the sum of quantity * rate over its lines, in
\* the editor and in the preview, and so is the subtotal stored in every invoice
\* that is being written or has been saved.
C16_SubtotalIsSumOfLines ==
  /\ Subtotal(items) = SumQuantityTimesRate(items)
  /\ CalcSubtotal(items) = SumQuantityTimesRate(items)
  /\ \A i \in 1..Len(writeQ) :
       writeQ[i].fromSave =>
         writeQ[i].invoice.subtotal = SumQuantityTimesRate(writeQ[i].invoice.items)
  /\ \A b \in DOMAIN invoicesDb :
       invoicesDb[b].subtotal = SumQuantityTimesRate(invoicesDb[b].items)

\* C16 witness: a saved invoice of two lines, one of them of quantity 2, and a new
\* cart in the editor that has a line again.
C16_Witness ==
  /\ \E b \in DOMAIN invoicesDb :
       /\ Len(invoicesDb[b].items) = 2
       /\ \E i \in 1..2 : invoicesDb[b].items[i].quantity = 2
       /\ invoicesDb[b].subtotal >= 9
  /\ Len(items) > 0 /\ ~isSaved

\* The value, the number of decimal digits and the digit groups of an amount.
RECURSIVE Pow10(_)
Pow10(k) == IF k = 0 THEN 1 ELSE 10 * Pow10(k - 1)
NumDigits(x) == IF x.coef = 0 THEN 1 ELSE Len(NatToString(x.coef)) + x.exp10
ValueOf(x) == x.coef * Pow10(x.exp10)
InWordsRange(x) == x.coef >= 1 /\ NumDigits(x) <= 9
Rendered == amountInWords # <<>>

TwoDigits(v) == IF v < 20 THEN aWord(v) ELSE bWord(v \div 10) \o aWord(v % 10)
Part(v, label) == IF v = 0 THEN <<>> ELSE TwoDigits(v) \o <<label>>

\* n spelled by its crore, lakh, thousand, hundred and remainder groups.
Spelling(n) ==
  LET high == Part(n \div 10000000, "Crore") \o Part((n \div 100000) % 100, "Lakh")
                \o Part((n \div 1000) % 100, "Thousand")
                \o Part((n \div 100) % 10, "Hundred")
  IN high \o (IF n % 100 # 0
              THEN (IF high # <<>> THEN <<"and">> ELSE <<>>) \o TwoDigits(n % 100)
              ELSE <<>>)

\* C17: the words of 0 are "Zero"; the words of an integer n from 1 to 999,999,999
\* are n spelled by its 2-2-2-1-2 digit groups followed by "Only" (100 has
\* "Hundred"), and no other amount of that range has the same words.
C17_AmountInWords ==
  Rendered =>
    /\ inputNum.coef = 0 => amountInWords = <<"Zero">>
    /\ InWordsRange(inputNum) =>
         /\ amountInWords = Spelling(ValueOf(inputNum)) \o <<"Only">>
         /\ amountInWords[Len(amountInWords)] = "Only"
         /\ ValueOf(inputNum) = 100 =>
              \E i \in 1..Len(amountInWords) : amountInWords[i] = "Hundred"
         /\ \A m \in WordsInputs :
              (InWordsRange(m) /\ numberToWords(m) = amountInWords)
                => ValueOf(m) = ValueOf(inputNum)

\* C17 witness: 999,999,999 has been put into words: fifteen of them, "Only" last.
C17_Witness ==
  /\ inputNum = [coef |-> 999999999, exp10 |-> 0]
  /\ Len(amountInWords) = 15
  /\ amountInWords[1] = "Ninety" /\ amountInWords[3] = "Crore"
  /\ amountInWords[15] = "Only"

\* C18 as stated: the words of every integer from 10^9 on are the overflow marker.
C18_OverflowMarked ==
  (Rendered /\ inputNum.coef >= 1 /\ NumDigits(inputNum) >= 10)
    => Head(amountInWords) = "overflow"

\* A total of kg kilograms and gm grams written as its "Kg" and "Gm" parts.
KgGmText(kg, gm) ==
  (IF kg > 0 THEN NatToString(kg) \o <<" ", "K", "g">> ELSE <<>>)
    \o (IF kg > 0 /\ gm > 0 THEN <<" ">> ELSE <<>>)
    \o (IF gm > 0 THEN NatToString(gm) \o <<" ", "G", "m">> ELSE <<>>)

\* C19 as stated: the total is the sum of value * quantity over the lines whose
\* packing matches, kg/ltr/l counting 1000 and gm/g/ml 1; it is shown as whole
\* kilograms and the remaining grams ("1 kg" x2 with "500 gm" x1 is
\* "2 Kg 500 Gm"), and as the dash exactly when no line contributed.
C19_WeightDisplay ==
  totalWeightDisplay # <<"none">> =>
    LET grams == RoundDiv(TotalGrams(items), WeightScale)
    IN /\ (\A i \in 1..Len(items) : LineGrams(items[i]) = 0)
            => totalWeightDisplay = <<"-">>
       /\ (\E i \in 1..Len(items) : LineGrams(items[i]) # 0)
            => /\ totalWeightDisplay # <<>>
               /\ totalWeightDisplay = KgGmText(grams \div 1000, grams % 1000)
       /\ items = <<WeightLine("1 kg", 2), WeightLine("500 gm", 1)>>
            => totalWeightDisplay =
                 <<"2", " ", "K", "g", " ", "5", "0", "0", " ", "G", "m">>

\* The calendar day a filter date names, and the day an invoice is dated.
CalendarDay(text) ==
  LET parts == Split(Chars(text), "-")
  IN LocalDay(GroupVal(parts[1]), GroupVal(parts[2]), GroupVal(parts[3]))
DateParts(invoice) == Split(Chars(invoice.date), "/")
Unparseable(invoice) ==
  Len(DateParts(invoice)) # 3 \/ \E i \in 1..3 : ~IsNumeric(DateParts(invoice)[i])

\* C20 as stated: the invoices listed are exactly those whose customer name or
\* bill id contains the search term, case ignored, and whose date is unparseable
\* or lies between the start and end days given, both included; with no term and
\* no dates every invoice is listed; no invoice is listed twice.
C20_FilterExact ==
  LET listed == {filteredInvoices[i] : i \in 1..Len(filteredInvoices)}
      inRange(inv) ==
        \/ Unparseable(inv)
        \/ /\ startDate # "" => ~DateBefore(InvDate(DateParts(inv)), CalendarDay(startDate))
           /\ endDate # "" => ~DateBefore(CalendarDay(endDate), InvDate(DateParts(inv)))
  IN /\ listed = {inv \in Invoices(invoicesDb) :
                    matchesSearch(inv, searchTerm) /\ inRange(inv)}
     /\ Cardinality(listed) = Len(filteredInvoices)
     /\ (searchTerm = "" /\ startDate = "" /\ endDate = "")
          => listed = Invoices(invoicesDb)

\* The numeric value of the bill id of the i-th invoice listed.
ListedNo(i) == GroupVal(Chars(filteredInvoices[i].id))

\* C21: the history listing holds each filtered invoice once and no other, in
\* descending order of the numeric value of the bill id.
C21_SortedByNumericId ==
  /\ {filteredInvoices[i] : i \in 1..Len(filteredInvoices)} =
       {inv \in Invoices(invoicesDb) :
          /\ matchesSearch(inv, searchTerm)
          /\ matchesDate(inv, startDate, endDate, timezoneOffset)}
  /\ \A i, j \in 1..Len(filteredInvoices) :
       i < j => /\ filteredInvoices[i] # filteredInvoices[j]
                /\ ListedNo(i) >= ListedNo(j)

\* C21 witness: after a search the listing shows bill "10" right before bill "9"
\* and bill "2" right before bill "1".
C21_Witness ==
  /\ searchTerm = "a"
  /\ \E i \in 1..(Len(filteredInvoices) - 1) :
       filteredInvoices[i].id = "10" /\ filteredInvoices[i + 1].id = "9"
  /\ \E i \in 1..(Len(filteredInvoices) - 1) :
       filteredInvoices[i].id = "2" /\ filteredInvoices[i + 1].id = "1"

\* A reader of CSV text by the standard rules: a comma ends a field and a line
\* break ends a record where they stand outside quotes, that is after an even
\* number of double quotes; a field that opens with a double quote loses its
\* outer quotes and holds one double quote for every doubled one.
OutsideQuotes(t, i) == Cardinality({j \in 1..(i - 1) : t[j] = "\""}) % 2 = 0
Separators(t, c) == {i \in 1..Len(t) : t[i] = c /\ OutsideQuotes(t, i)}
Pieces(t, seps) ==
  LET at(k) == IF k = 0 THEN 0
               ELSE IF k > Cardinality(seps) THEN Len(t) + 1
               ELSE CHOOSE q \in seps : Cardinality({r \in seps : r < q}) = k - 1
  IN [k \in 1..(Cardinality(seps) + 1) |-> SubSeq(t, at(k - 1) + 1, at(k) - 1)]

RECURSIVE Undoubled(_)
Undoubled(t) ==
  IF t = <<>> THEN <<>>
  ELSE IF Len(t) >= 2 /\ t[1] = "\"" /\ t[2] = "\""
       THEN <<"\"">> \o Undoubled(SubSeq(t, 3, Len(t)))
       ELSE <<Head(t)>> \o Undoubled(Tail(t))
FieldValue(f) ==
  IF Len(f) >= 2 /\ f[1] = "\"" /\ f[Len(f)] = "\""
  THEN Undoubled(SubSeq(f, 2, Len(f) - 1)) ELSE f
ParseCsv(t) ==
  LET lines == Pieces(t, Separators(t, "\n"))
  IN [r \in 1..Len(lines) |->
        LET fields == Pieces(lines[r], Separators(lines[r], ","))
        IN [k \in 1..Len(fields) |-> FieldValue(fields[k])]]

Exported == csvContent # <<>>

\* C22 as stated: the exported text reads back, by the standard CSV rules, as the
\* header Bill No, Date, Customer Name, City, Items, Total Amount followed by one
\* record per listed invoice, each of exactly six fields whose first is the
\* invoice's bill id and whose last is its total, whatever the fields hold.
C22_CsvRoundTrip ==
  Exported =>
    LET records == ParseCsv(csvContent)
    IN /\ Len(records) = Len(filteredInvoices) + 1
       /\ records[1] = [i \in 1..6 |-> Chars(CsvHeaders[i])]
       /\ \A i \in 1..Len(filteredInvoices) :
            /\ Len(records[i + 1]) = 6
            /\ records[i + 1][1] = Chars(filteredInvoices[i].id)
            /\ records[i + 1][6] = NatToString(filteredInvoices[i].total)

\* The on-screen preview and the hidden capture of the Create Bill view: two
\* InvoiceTemplate elements with the same props and no gstRate prop.
PreviewFigures == TemplateFigures(items, settings, Undefined)
CaptureFigures == TemplateFigures(items, settings, Undefined)
CalculatorFigures ==
  [subtotal |-> Subtotal(items),
   sgstAmount |-> SgstAmount(items, settings),
   cgstAmount |-> CgstAmount(items, settings),
   total |-> GrandTotal(items, settings)]
Frozen(inv) ==
  [subtotal |-> inv.subtotal, sgstAmount |-> inv.sgstAmount,
   cgstAmount |-> inv.cgstAmount, total |-> inv.total]

\* C23: in the Create Bill view the subtotal, the two tax components and the total
\* shown by the preview and by the capture equal those of the calculator for the
\* cart and the settings in hand, and a save freezes exactly these figures into
\* the invoice it issues.
C23_RenderedEqualsCalculated ==
  /\ [](Mounted => /\ PreviewFigures = CalculatorFigures
                   /\ CaptureFigures = CalculatorFigures)
  /\ [][(Mounted /\ ~isSaved /\ isSaved') =>
          /\ Len(writeQ') = Len(writeQ) + 1
          /\ Frozen(writeQ'[Len(writeQ')].invoice) = PreviewFigures
          /\ Frozen(writeQ'[Len(writeQ')].invoice) = CaptureFigures
          /\ writeQ'[Len(writeQ')].invoice.items = items]_vars

\* C23 witness: a save is in flight for a cart under tax whose components are
\* rounded up (subtotal 10 at 12 per cent: 0.6 each), and the preview shows the
\* frozen figures.
C23_Witness ==
  /\ Mounted /\ isSaved /\ writeQ # <<>>
  /\ Head(writeQ).kind = "invoice"
  /\ settings.enableGst /\ settings.defaultGstRate = 12
  /\ Head(writeQ).invoice.subtotal = 10
  /\ Head(writeQ).invoice.sgstAmount = 1
  /\ Head(writeQ).invoice.total = 12
  /\ Frozen(Head(writeQ).invoice) = PreviewFigures

\* The figures InvoiceTemplate shows for a saved invoice opened in Invoice
\* History: the invoice's lines and gstRate, the settings of the moment.
HistoryViewFigures(inv) == TemplateFigures(inv.items, settings, <<inv.gstRate>>)

\* C24 as stated: whatever the tax settings have become since the save, a saved
\* invoice opened from Invoice History shows the subtotal, the tax components and
\* the total persisted in it.
C24_ReopenedShowsPersisted ==
  activeTab = "INVOICE_HISTORY" =>
    \A b \in DOMAIN invoicesDb : HistoryViewFigures(invoicesDb[b]) = Frozen(invoicesDb[b])

\* C25 as stated: no two lines of the cart share an id, however close in time the
\* addItem calls that made them, so an id names exactly one line.
C25_LineIdsUnique ==
  \A i, j \in 1..Len(items) : items[i].id = items[j].id => i = j

StaysLocked == Mounted /\ isSaved /\ activeTab' = "CREATE_BILL" /\ isSaved'

\* C26: while the cart is not locked the bill number shown equals the counter of
\* the settings, and a save freezes that number into its invoice; while the cart
\* stays locked the bill number does not change, whatever the counter does, and
\* is the id of the invoice of the save; after reset() it equals the counter again.
C26_BillNoFollowsCounter ==
  /\ [](Mounted /\ ~isSaved => billNo = ToString(settings.nextInvoiceNumber))
  /\ [][(Mounted /\ ~isSaved /\ isSaved') =>
          /\ writeQ'[Len(writeQ')].invoice.id = ToString(settings.nextInvoiceNumber)
          /\ billNo' = writeQ'[Len(writeQ')].invoice.id]_vars
  /\ [][StaysLocked => billNo' = billNo]_vars
  /\ [](Mounted /\ isSaved =>
          \/ \E i \in 1..Len(writeQ) : writeQ[i].attached /\ writeQ[i].invoice.id = billNo
          \/ billNo \in DOMAIN invoicesDb)
  /\ [][(Mounted /\ resetForm) => billNo' = ToString(settings'.nextInvoiceNumber)]_vars

\* C26 witness: the cart is locked on bill 1, whose invoice is persisted, and the
\* counter has advanced to 2.
C26_Witness ==
  /\ Mounted /\ isSaved
  /\ billNo = "1"
  /\ "1" \in DOMAIN invoicesDb
  /\ settings.nextInvoiceNumber = 2

\* The saves outstanding: each has one write in flight, first the invoice, then
\* the counter.
SavesOutstanding == {i \in 1..Len(writeQ) : writeQ[i].fromSave}

\* C27 as stated: at most one save is outstanding at any time, no save is
\* initiated while one is in flight or the cart is locked, and no save persists
\* its invoice twice or advances the counter twice.
C27_OneSaveOutstanding ==
  /\ [](Cardinality(SavesOutstanding) <= 1)
  /\ [][(Len(writeQ') = Len(writeQ) + 1 /\ writeQ'[Len(writeQ')].kind = "invoice") =>
          /\ SavesOutstanding = {}
          /\ ~isSaved /\ ~isSaving]_vars

\* C29 as stated: the counter advance that follows the invoice write of a save
\* changes only nextInvoiceNumber; every other field of the settings keeps the
\* value it has, also when the settings were edited while the save was in flight.
C29_CounterAdvanceFrame ==
  [][InvoiceWriteOk =>
       \A f \in DOMAIN settings \ {"nextInvoiceNumber"} : settings'[f] = settings[f]]_vars

\* The awaited onSaveInvoice of the mounted view returns normally, or throws.
SaveSucceeds ==
  /\ writeQ # <<>> /\ Head(writeQ).kind = "settings"
  /\ Head(writeQ).fromSave /\ Head(writeQ).attached
  /\ (SettingsWriteOk \/ SettingsWriteFail)
SaveFails ==
  /\ writeQ # <<>> /\ Head(writeQ).attached
  /\ InvoiceWriteFail

\* C28 as stated: a save that was initiated leaves the saving state once its
\* persistence call has settled; the saving indicator is then false, with the
\* cart locked after a success and editable after a failure.
C28_SaveLeavesSaving ==
  /\ isSaving ~> ~isSaving
  /\ [][SaveSucceeds => (~isSaving' /\ isSaved')]_vars
  /\ [][SaveFails => (~isSaving' /\ ~isSaved')]_vars

\* C30: while the unsaved-changes signal is true the active tab leaves Create Bill
\* only in a tab change whose discard prompt the operator confirms; a tab change
\* whose prompt is declined leaves the active tab, the cart, its header and the
\* signal as they were.
C30_LeaveOnlyConfirmed ==
  /\ [][(Mounted /\ hasUnsavedChanges /\ activeTab' # "CREATE_BILL") =>
          lastOp' = "confirmLeave"]_vars
  /\ [][(Mounted /\ hasUnsavedChanges /\ lastOp' = "declineLeave") =>
          /\ activeTab' = activeTab
          /\ cartVars' = cartVars
          /\ isSaved' = isSaved
          /\ billNo' = billNo
          /\ hasUnsavedChanges']_vars

\* C30 witness: the operator has just declined the prompt over a cart that holds
\* a line, and the view is still Create Bill with the signal up.
C30_Witness ==
  /\ lastOp = "declineLeave"
  /\ Mounted /\ hasUnsavedChanges
  /\ Len(items) > 0

====
